---------------------------- MODULE Spec2Model ----------------------------
(***************************************************************************)
(* Batch-Cropper (src/Batch-Cropper.py): the preview panel's selection     *)
(* rectangle, the control panel's coordinate fields and the main frame's   *)
(* session (documents and undo history), as a state machine.               *)
(*                                                                         *)
(* Conventions.                                                            *)
(*  - A wx.Rect is <<x, y, width, height>>; as in wxWidgets, its Right is  *)
(*    x + width - 1 and its Bottom is y + height - 1.  Python's None is    *)
(*    the empty tuple None.                                                *)
(*  - Python floats are modelled as exact rationals: a ratio is a pair     *)
(*    <<n, d>> with d > 0, and int(round(n/d)) is Round(n, d), which       *)
(*    rounds half to even as Python 3 does.                                *)
(*  - A PIL image is the window it shows of its original picture:          *)
(*    [src, ox, oy, w, h, q] (q: number of colour reductions applied).     *)
(***************************************************************************)
EXTENDS Integers, Sequences, FiniteSets, TLC

(***************************************************************************)
(* Program constants.                                                      *)
(***************************************************************************)
MAX_HISTORY == 10
HANDLE_SIZE == 10
MIN_CROP_SIZE == 4

(***************************************************************************)
(* Arithmetic.                                                             *)
(***************************************************************************)
None == <<>>

Max(a, b) == IF a >= b THEN a ELSE b
Min(a, b) == IF a <= b THEN a ELSE b
Abs(a) == IF a < 0 THEN -a ELSE a

\* math.floor(n/d), d # 0
Floor(n, d) ==
  LET Quotient(nn, dd) ==
        IF nn >= 0 THEN nn \div dd ELSE -((-nn + dd - 1) \div dd)
  IN  Quotient(IF d < 0 THEN -n ELSE n, Abs(d))

\* math.ceil(n/d), d # 0
Ceil(n, d) == -Floor(-n, d)

\* int(n/d): truncation towards zero, d # 0
Trunc(n, d) ==
  LET Quotient(nn, dd) ==
        IF nn >= 0 THEN nn \div dd ELSE -((-nn) \div dd)
  IN  Quotient(IF d < 0 THEN -n ELSE n, Abs(d))

\* int(round(n/d)): Python 3 rounds half to even, d # 0
Round(n, d) ==
  LET Nearest(q, r, dd) ==
        IF 2 * r > dd THEN q + 1
        ELSE IF 2 * r < dd THEN q
        ELSE IF q % 2 = 0 THEN q ELSE q + 1
      Split(nn, dd, q) == Nearest(q, nn - q * dd, dd)
      Normal(nn, dd) == Split(nn, dd, Floor(nn, dd))
  IN  Normal(IF d < 0 THEN -n ELSE n, Abs(d))

(***************************************************************************)
(* wx.Rect and wx.Point.                                                   *)
(***************************************************************************)
Rect(x, y, w, h) == <<x, y, w, h>>
ZeroRect == <<0, 0, 0, 0>>
ZeroPoint == <<0, 0>>
RectRight(r) == r[1] + r[3] - 1
RectBottom(r) == r[2] + r[4] - 1
\* wx.Rect.__bool__: all four fields zero is falsy
RectTruthy(r) == r # None /\ r # ZeroRect
\* wx.Rect.Contains(point)
RectContains(r, p) ==
  /\ p[1] >= r[1] /\ p[1] - r[1] < r[3]
  /\ p[2] >= r[2] /\ p[2] - r[2] < r[4]

(***************************************************************************)
(* PreviewPanel: points and hit tests.  self is the panel's record of      *)
(* fields.                                                                 *)
(***************************************************************************)
\* the display point of a mouse event at panel position pos
_event_to_display_point(self, pos) ==
  <<pos[1] - self.offset_x, pos[2] - self.offset_y>>

_clamp_display_point(self, point) ==
  << Max(0, Min(point[1], self.display_w)),
     Max(0, Min(point[2], self.display_h)) >>

_point_in_display(self, point) ==
  /\ 0 <= point[1] /\ point[1] <= self.display_w
  /\ 0 <= point[2] /\ point[2] <= self.display_h

_rect_contains_point(rect_tuple, point) ==
  /\ rect_tuple[1] <= point[1] /\ point[1] <= rect_tuple[1] + rect_tuple[3]
  /\ rect_tuple[2] <= point[2] /\ point[2] <= rect_tuple[2] + rect_tuple[4]

\* the handles in the order the dictionary of _iter_handle_rects_display
\* yields them
HandleNames ==
  << "top_left", "top", "top_right", "right",
     "bottom_right", "bottom", "bottom_left", "left" >>

\* the wx.Rect of one handle; center_x = x + w/2 is rounded half to even
_iter_handle_rects_display(self, name) ==
  LET half == HANDLE_SIZE \div 2
      At(x, y, w, h) ==
        Rect((CASE name \in {"top_left", "bottom_left", "left"} -> x
                [] name \in {"top", "bottom"} -> Round(2 * x + w, 2)
                [] OTHER -> x + w) - half,
             (CASE name \in {"top_left", "top", "top_right"} -> y
                [] name \in {"left", "right"} -> Round(2 * y + h, 2)
                [] OTHER -> y + h) - half,
             HANDLE_SIZE, HANDLE_SIZE)
  IN  At(self.crop_rect[1], self.crop_rect[2], self.crop_rect[3], self.crop_rect[4])

\* the first handle whose rectangle contains the point, or "none"
_hit_test_handle(self, point) ==
  IF self.crop_rect = None THEN "none"
  ELSE LET First(hits) ==
             IF hits = {} THEN "none"
             ELSE HandleNames[CHOOSE i \in hits : \A j \in hits : i <= j]
       IN  First({ i \in 1..Len(HandleNames) :
                   RectContains(_iter_handle_rects_display(self, HandleNames[i]), point) })

(***************************************************************************)
(* The aspect ratio text "W:H": a sequence of ':'-separated parts, a part  *)
(* being <<n>> when float() reads the number n from it and <<>> when       *)
(* float() raises ValueError.                                              *)
(***************************************************************************)
\* wr, hr = map(float, text.split(':')): <<wr, hr>>, or None when it raises
ParseAspect(text) ==
  IF Len(text) = 2 /\ Len(text[1]) = 1 /\ Len(text[2]) = 1
  THEN <<text[1][1], text[2][1]>>
  ELSE None

\* variant: the ratio taken as hr/wr
_get_aspect_ratio_swapped(self) ==
  IF ~self.fixed_aspect THEN None
  ELSE LET Ratio(p) ==
             IF p = None THEN None
             ELSE IF p[1] = 0 THEN None
             ELSE IF p[1] < 0 THEN <<-p[2], -p[1]>> ELSE <<p[2], p[1]>>
       IN  Ratio(ParseAspect(self.crop_aspect))

\* the ratio wr/hr as <<n, d>> with d > 0, or None
_get_aspect_ratio(self) ==
  IF ~self.fixed_aspect THEN None
  ELSE LET Ratio(p) ==
             IF p = None THEN None
             ELSE IF p[2] = 0 THEN None
             ELSE IF p[2] < 0 THEN <<-p[1], -p[2]>> ELSE p
       IN  Ratio(ParseAspect(self.crop_aspect))

\* Python's truth value of what _get_aspect_ratio returns: None and 0.0 are
\* falsy
RatioTruthy(ratio) == ratio # None /\ ratio[1] # 0

(***************************************************************************)
(* PreviewPanel: the normaliser.                                           *)
(***************************************************************************)
\* variant: the position is not clamped again after the size is raised to
\* MIN_CROP_SIZE
_ensure_within_display_once(self, rect) ==
  IF rect = None THEN ZeroRect
  ELSE IF self.display_w <= 0 \/ self.display_h <= 0 THEN ZeroRect
  ELSE LET dw == self.display_w
           dh == self.display_h
           Shifted(x1, y1, w1, h1) ==
             Rect(IF x1 + w1 - 1 > dw THEN dw - w1 ELSE x1,
                  IF y1 + h1 - 1 > dh THEN dh - h1 ELSE y1,
                  Max(MIN_CROP_SIZE, w1), Max(MIN_CROP_SIZE, h1))
       IN  Shifted(IF rect[1] < 0 THEN 0 ELSE rect[1],
                   IF rect[2] < 0 THEN 0 ELSE rect[2],
                   IF rect[3] > dw THEN dw ELSE rect[3],
                   IF rect[4] > dh THEN dh ELSE rect[4])

_ensure_within_display(self, rect) ==
  IF rect = None THEN ZeroRect
  ELSE IF self.display_w <= 0 \/ self.display_h <= 0 THEN ZeroRect
  ELSE LET dw == self.display_w
           dh == self.display_h
           \* the size raised to MIN_CROP_SIZE, the position clamped again
           Raised(x2, y2, w2, h2) ==
             Rect(Max(0, Min(x2, dw - w2)), Max(0, Min(y2, dh - h2)), w2, h2)
           \* the position shifted back from the right and bottom borders
           Shifted(x1, y1, w1, h1) ==
             Raised(IF x1 + w1 - 1 > dw THEN dw - w1 ELSE x1,
                    IF y1 + h1 - 1 > dh THEN dh - h1 ELSE y1,
                    Max(MIN_CROP_SIZE, w1), Max(MIN_CROP_SIZE, h1))
       IN  Shifted(IF rect[1] < 0 THEN 0 ELSE rect[1],
                   IF rect[2] < 0 THEN 0 ELSE rect[2],
                   IF rect[3] > dw THEN dw ELSE rect[3],
                   IF rect[4] > dh THEN dh ELSE rect[4])

_ensure_min_size(self, rect) ==
  LET Widened(r1) ==
        _ensure_within_display(self,
          Rect(r1[1], r1[2],
               IF r1[3] < MIN_CROP_SIZE THEN MIN_CROP_SIZE ELSE r1[3],
               IF r1[4] < MIN_CROP_SIZE THEN MIN_CROP_SIZE ELSE r1[4]))
  IN  Widened(_ensure_within_display(self, rect))

(***************************************************************************)
(* PreviewPanel: create, move and resize.  A ratio is <<n, d>>, d > 0:     *)
(* v / ratio is v*d/n and v * ratio is v*n/d.                              *)
(***************************************************************************)
\* the rectangle always spans to the right of and below the anchor
_create_rect_with_ratio_rect_unsigned(anchor, current, ratio) ==
  LET dx == current[1] - anchor[1]
      dy == current[2] - anchor[2]
      Spanned(x2, y2) ==
        Rect(Min(anchor[1], x2), Min(anchor[2], y2),
             Abs(x2 - anchor[1]), Abs(y2 - anchor[2]))
      Signed(abs_dx, abs_dy) == Spanned(anchor[1] + abs_dx, anchor[2] + abs_dy)
      Fitted(abs_dx, abs_dy, wider) ==
        Signed(IF wider THEN Round(abs_dy * ratio[1], ratio[2]) ELSE abs_dx,
               IF wider THEN abs_dy ELSE Round(abs_dx * ratio[2], ratio[1]))
      Compared(abs_dx, abs_dy) ==
        Fitted(abs_dx, abs_dy,
               \/ abs_dy > 0 /\ abs_dx * ratio[2] > ratio[1] * abs_dy
               \/ abs_dy < 0 /\ abs_dx * ratio[2] < ratio[1] * abs_dy)
      WithHeight(abs_dy) ==
        Compared(IF Abs(dx) = 0 THEN Round(abs_dy * ratio[1], ratio[2]) ELSE Abs(dx),
                 abs_dy)
  IN  WithHeight(IF Abs(dy) = 0 THEN Round(Abs(dx) * ratio[2], ratio[1])
                 ELSE Abs(dy))

\* the local rect of _create_rect_with_ratio before _ensure_within_display,
\* for current # anchor
_create_rect_with_ratio_rect(anchor, current, ratio) ==
  LET dx == current[1] - anchor[1]
      dy == current[2] - anchor[2]
      \* the rectangle between the anchor and the corner <<x2, y2>>
      Spanned(x2, y2) ==
        Rect(Min(anchor[1], x2), Min(anchor[2], y2),
             Abs(x2 - anchor[1]), Abs(y2 - anchor[2]))
      Signed(abs_dx, abs_dy) ==
        Spanned(anchor[1] + (IF dx >= 0 THEN abs_dx ELSE -abs_dx),
                anchor[2] + (IF dy >= 0 THEN abs_dy ELSE -abs_dy))
      \* wider: current_ratio > ratio
      Fitted(abs_dx, abs_dy, wider) ==
        Signed(IF wider THEN Round(abs_dy * ratio[1], ratio[2]) ELSE abs_dx,
               IF wider THEN abs_dy ELSE Round(abs_dx * ratio[2], ratio[1]))
      \* current_ratio is abs_dx / abs_dy, or ratio itself when abs_dy = 0
      Compared(abs_dx, abs_dy) ==
        Fitted(abs_dx, abs_dy,
               \/ abs_dy > 0 /\ abs_dx * ratio[2] > ratio[1] * abs_dy
               \/ abs_dy < 0 /\ abs_dx * ratio[2] < ratio[1] * abs_dy)
      WithHeight(abs_dy) ==
        Compared(IF Abs(dx) = 0 THEN Round(abs_dy * ratio[1], ratio[2]) ELSE Abs(dx),
                 abs_dy)
  IN  WithHeight(IF Abs(dy) = 0 THEN Round(Abs(dx) * ratio[2], ratio[1])
                 ELSE Abs(dy))

_create_rect_with_ratio(self, anchor, current, ratio) ==
  IF current = anchor THEN Rect(anchor[1], anchor[2], 0, 0)
  ELSE _ensure_within_display(self,
         _create_rect_with_ratio_rect(anchor, current, ratio))

_create_rect(self, anchor0, current0) ==
  LET Between(anchor, current, ratio) ==
        _ensure_min_size(self,
          IF RatioTruthy(ratio)
          THEN _create_rect_with_ratio(self, anchor, current, ratio)
          ELSE Rect(Min(anchor[1], current[1]), Min(anchor[2], current[2]),
                    Abs(current[1] - anchor[1]), Abs(current[2] - anchor[2])))
  IN  Between(_clamp_display_point(self, anchor0),
              _clamp_display_point(self, current0),
              _get_aspect_ratio(self))

\* wx.Rect(int(round(x)), ...) of crop_rect, whose fields are integers
_rect_from_crop(self) ==
  IF self.crop_rect = None THEN None ELSE self.crop_rect

_update_selection_creation(self, anchor, current) ==
  [self EXCEPT !.crop_rect = _create_rect(self, anchor, current)]

_update_selection_move(self, dx, dy) ==
  IF ~RectTruthy(self.original_rect) THEN self
  ELSE LET o == self.original_rect
       IN  [self EXCEPT !.crop_rect =
              _ensure_min_size(self, Rect(o[1] + dx, o[2] + dy, o[3], o[4]))]

_rect_from_horizontal_anchor(self, anchor_x, width0, origin, to_left, ratio) ==
  LET Placed(width, height, top) ==
        LET bottom == top + height
            rightL == Min(anchor_x, self.display_w)
            leftL == Max(0, rightL - width)
            rightR == Min(self.display_w, Max(0, anchor_x) + width)
            leftR == rightR - width
        IN  IF to_left THEN Rect(leftL, top, rightL - leftL, bottom - top)
            ELSE Rect(leftR, top, rightR - leftR, bottom - top)
      \* int(round(center_y - height / 2)), center_y = origin.y + origin.height / 2
      Centred(width, height) ==
        Placed(width, height,
               Max(0, Min(Round(2 * origin[2] + origin[4] - height, 2),
                          self.display_h - height)))
      Limited(w1, h1) ==
        Centred(IF h1 > self.display_h
                THEN Max(MIN_CROP_SIZE, Round(self.display_h * ratio[1], ratio[2]))
                ELSE w1,
                IF h1 > self.display_h THEN self.display_h ELSE h1)
      Sized(w1) == Limited(w1, Max(MIN_CROP_SIZE, Round(w1 * ratio[2], ratio[1])))
  IN  Sized(Max(MIN_CROP_SIZE, Min(width0, self.display_w)))

_rect_from_vertical_anchor(self, anchor_y, height0, origin, to_top, ratio) ==
  LET Placed(width, height, left) ==
        LET right == left + width
            bottomT == Min(anchor_y, self.display_h)
            topT == Max(0, bottomT - height)
            bottomB == Min(self.display_h, Max(0, anchor_y) + height)
            topB == bottomB - height
        IN  IF to_top THEN Rect(left, topT, right - left, bottomT - topT)
            ELSE Rect(left, topB, right - left, bottomB - topB)
      Centred(width, height) ==
        Placed(width, height,
               Max(0, Min(Round(2 * origin[1] + origin[3] - width, 2),
                          self.display_w - width)))
      Limited(w1, h1) ==
        Centred(IF w1 > self.display_w THEN self.display_w ELSE w1,
                IF w1 > self.display_w
                THEN Max(MIN_CROP_SIZE, Round(self.display_w * ratio[2], ratio[1]))
                ELSE h1)
      Sized(h1) == Limited(Max(MIN_CROP_SIZE, Round(h1 * ratio[1], ratio[2])), h1)
  IN  Sized(Max(MIN_CROP_SIZE, Min(height0, self.display_h)))

_resize_corner_with_ratio(self, point, handle, origin, ratio) ==
  LET anchor == CASE handle = "top_left" -> <<RectRight(origin), RectBottom(origin)>>
                  [] handle = "top_right" -> <<origin[1], RectBottom(origin)>>
                  [] handle = "bottom_left" -> <<RectRight(origin), origin[2]>>
                  [] OTHER -> <<origin[1], origin[2]>>
      horizontal == IF handle \in {"top_left", "bottom_left"} THEN -1 ELSE 1
      vertical == IF handle \in {"top_left", "top_right"} THEN -1 ELSE 1
      Built(width, height) ==
        _ensure_min_size(self,
          Rect(IF horizontal < 0 THEN anchor[1] - width ELSE anchor[1],
               IF vertical < 0 THEN anchor[2] - height ELSE anchor[2],
               width, height))
      \* h1 = dx / ratio: the axis that is out of proportion shrinks
      Fitted(dx, dy, h1) ==
        Built(Max(MIN_CROP_SIZE, IF h1 > dy THEN Round(dy * ratio[1], ratio[2]) ELSE dx),
              Max(MIN_CROP_SIZE, IF h1 > dy THEN dy ELSE h1))
      Proportioned(dx, dy) == Fitted(dx, dy, Round(dx * ratio[2], ratio[1]))
      WithDy(dx1, dy) ==
        Proportioned(IF dx1 = 0 THEN Round(dy * ratio[1], ratio[2]) ELSE dx1, dy)
      Clamped(dx1, dy1) ==
        WithDy(dx1, IF dy1 = 0 THEN Round(dx1 * ratio[2], ratio[1]) ELSE dy1)
  IN  Clamped(Max(MIN_CROP_SIZE,
                  Min(Abs((point[1] - anchor[1]) * horizontal), self.display_w)),
              Max(MIN_CROP_SIZE,
                  Min(Abs((point[2] - anchor[2]) * vertical), self.display_h)))

_resize_with_ratio(self, point, handle, ratio) ==
  IF ~RectTruthy(self.original_rect) THEN ZeroRect
  ELSE
    LET origin == self.original_rect
        rect ==
          CASE handle = "left" ->
                 LET anchor_x == RectRight(origin)
                     width == Max(MIN_CROP_SIZE, Min(anchor_x - point[1], anchor_x))
                 IN  _rect_from_horizontal_anchor(self, anchor_x, width, origin, TRUE, ratio)
            [] handle = "right" ->
                 LET anchor_x == origin[1]
                     width == Max(MIN_CROP_SIZE,
                                  Min(point[1] - anchor_x, self.display_w - anchor_x))
                 IN  _rect_from_horizontal_anchor(self, anchor_x, width, origin, FALSE, ratio)
            [] handle = "top" ->
                 LET anchor_y == RectBottom(origin)
                     height == Max(MIN_CROP_SIZE, Min(anchor_y - point[2], anchor_y))
                 IN  _rect_from_vertical_anchor(self, anchor_y, height, origin, TRUE, ratio)
            [] handle = "bottom" ->
                 LET anchor_y == origin[2]
                     height == Max(MIN_CROP_SIZE,
                                   Min(point[2] - anchor_y, self.display_h - anchor_y))
                 IN  _rect_from_vertical_anchor(self, anchor_y, height, origin, FALSE, ratio)
            [] OTHER -> _resize_corner_with_ratio(self, point, handle, origin, ratio)
    IN  _ensure_min_size(self, rect)

\* "left" in handle, and so on: the substring test on the handle's name
HandleHas(handle, side) ==
  CASE side = "left" -> handle \in {"left", "top_left", "bottom_left"}
    [] side = "right" -> handle \in {"right", "top_right", "bottom_right"}
    [] side = "top" -> handle \in {"top", "top_left", "top_right"}
    [] OTHER -> handle \in {"bottom", "bottom_left", "bottom_right"}

_resize_free(self, point, handle) ==
  LET rect == self.original_rect
      left0 == rect[1]
      top0 == rect[2]
      right0 == RectRight(rect)
      bottom0 == RectBottom(rect)
      left1 == IF HandleHas(handle, "left") THEN Min(point[1], right0 - MIN_CROP_SIZE) ELSE left0
      right1 == IF HandleHas(handle, "right") THEN Max(point[1], left1 + MIN_CROP_SIZE) ELSE right0
      top1 == IF HandleHas(handle, "top") THEN Min(point[2], bottom0 - MIN_CROP_SIZE) ELSE top0
      bottom1 == IF HandleHas(handle, "bottom") THEN Max(point[2], top1 + MIN_CROP_SIZE) ELSE bottom0
      left == Max(0, Min(left1, self.display_w))
      right == Max(0, Min(right1, self.display_w))
      top == Max(0, Min(top1, self.display_h))
      bottom == Max(0, Min(bottom1, self.display_h))
  IN  Rect(left, top, Max(MIN_CROP_SIZE, right - left), Max(MIN_CROP_SIZE, bottom - top))

_update_selection_resize(self, point) ==
  IF ~RectTruthy(self.original_rect) \/ self.drag_handle = "none" THEN self
  ELSE LET Resized(ratio) ==
             [self EXCEPT !.crop_rect =
                _ensure_min_size(self,
                  IF RatioTruthy(ratio)
                  THEN _resize_with_ratio(self, point, self.drag_handle, ratio)
                  ELSE _resize_free(self, point, self.drag_handle))]
       IN  Resized(_get_aspect_ratio(self))

(***************************************************************************)
(* PreviewPanel: geometry of the displayed image, the seeded rectangle and *)
(* the mapping to the source image.                                        *)
(***************************************************************************)
NoImage == [src |-> "none", ox |-> 0, oy |-> 0, w |-> 0, h |-> 0, q |-> 0]

\* scale = min(pw/iw, ph/ih); display_w = int(iw * scale), display_h =
\* int(ih * scale); the offsets centre the image
UpdateDisplayGeometry(self) ==
  IF self.current_image = NoImage THEN self
  ELSE LET pw == self.client_size[1]
           ph == self.client_size[2]
           iw == self.current_image.w
           ih == self.current_image.h
           byWidth == pw * ih <= ph * iw
           Scaled(dw, dh) ==
             [self EXCEPT !.display_w = dw, !.display_h = dh,
                          !.offset_x = (pw - dw) \div 2,
                          !.offset_y = (ph - dh) \div 2]
       IN  Scaled(IF byWidth THEN pw ELSE Trunc(iw * ph, ih),
                  IF byWidth THEN Trunc(ih * pw, iw) ELSE ph)

ClipRect(self, rect) == _ensure_min_size(self, rect)

\* the new rectangle keeps the top-left corner instead of the centre
ApplyAspectRatioToSelection_TopLeft(self) ==
  IF ~self.fixed_aspect \/ self.crop_rect = None THEN self
  ELSE
    LET x == self.crop_rect[1]
        y == self.crop_rect[2]
        w == self.crop_rect[3]
        h == self.crop_rect[4]
        WithRatio(ratio) ==
          LET Cornered(width, height) ==
                [self EXCEPT !.crop_rect =
                   _ensure_min_size(self, Rect(x, y, width, height))]
              LimitedHeight(w3, h3) ==
                Cornered(Max(MIN_CROP_SIZE,
                             IF h3 > self.display_h
                             THEN Round(self.display_h * ratio[1], ratio[2]) ELSE w3),
                         Max(MIN_CROP_SIZE,
                             IF h3 > self.display_h THEN self.display_h ELSE h3))
              LimitedWidth(w2, h2) ==
                LimitedHeight(IF w2 > self.display_w THEN self.display_w ELSE w2,
                              IF w2 > self.display_w
                              THEN Round(self.display_w * ratio[2], ratio[1]) ELSE h2)
              FromHeight(h2) == LimitedWidth(Round(h2 * ratio[1], ratio[2]), h2)
              Positive(h1) == FromHeight(IF h1 <= 0 THEN MIN_CROP_SIZE ELSE h1)
              Desired(desired_height) ==
                Positive(IF desired_height <= self.display_h THEN desired_height ELSE h)
          IN  IF ~RatioTruthy(ratio) THEN self
              ELSE Desired(Round(w * ratio[2], ratio[1]))
    IN  WithRatio(_get_aspect_ratio(self))

ApplyAspectRatioToSelection(self) ==
  IF ~self.fixed_aspect \/ self.crop_rect = None THEN self
  ELSE
    LET x == self.crop_rect[1]
        y == self.crop_rect[2]
        w == self.crop_rect[3]
        h == self.crop_rect[4]
        WithRatio(ratio) ==
          LET \* int(round(center_x - width / 2)), center_x = x + w / 2
              Centred(width, height) ==
                [self EXCEPT !.crop_rect =
                   _ensure_min_size(self,
                     Rect(Round(2 * x + w - width, 2), Round(2 * y + h - height, 2),
                          width, height))]
              LimitedHeight(w3, h3) ==
                Centred(Max(MIN_CROP_SIZE,
                            IF h3 > self.display_h
                            THEN Round(self.display_h * ratio[1], ratio[2]) ELSE w3),
                        Max(MIN_CROP_SIZE,
                            IF h3 > self.display_h THEN self.display_h ELSE h3))
              LimitedWidth(w2, h2) ==
                LimitedHeight(IF w2 > self.display_w THEN self.display_w ELSE w2,
                              IF w2 > self.display_w
                              THEN Round(self.display_w * ratio[2], ratio[1]) ELSE h2)
              FromHeight(h2) == LimitedWidth(Round(h2 * ratio[1], ratio[2]), h2)
              Positive(h1) == FromHeight(IF h1 <= 0 THEN MIN_CROP_SIZE ELSE h1)
              Desired(desired_height) ==
                Positive(IF desired_height <= self.display_h THEN desired_height ELSE h)
          IN  IF ~RatioTruthy(ratio) THEN self
              ELSE Desired(Round(w * ratio[2], ratio[1]))
    IN  WithRatio(_get_aspect_ratio(self))

RescaleCropRect(self) ==
  IF self.crop_rect = None \/ self.old_display_w = 0 \/ self.old_display_h = 0 THEN self
  ELSE LET x == self.crop_rect[1]
           y == self.crop_rect[2]
           w == self.crop_rect[3]
           h == self.crop_rect[4]
           \* new_x = (x + w/2) * sx - (w * sx) / 2 = x * sx, sx = display_w / old_display_w
           new_x == Round(x * self.display_w, self.old_display_w)
           new_y == Round(y * self.display_h, self.old_display_h)
           new_w == Round(w * self.display_w, self.old_display_w)
           new_h == Round(h * self.display_h, self.old_display_h)
       IN  [self EXCEPT !.crop_rect =
              _ensure_min_size(self, Rect(new_x, new_y, new_w, new_h))]

\* variant: the far corner is not kept beyond the near one
GetCropBox_NoGap(self) ==
  IF self.crop_rect = None \/ self.current_image = NoImage
  THEN [kind |-> "none", box |-> ZeroRect]
  ELSE IF self.display_w = 0 \/ self.display_h = 0
  THEN [kind |-> "error", box |-> ZeroRect]
  ELSE LET x == self.crop_rect[1]
           y == self.crop_rect[2]
           w == self.crop_rect[3]
           h == self.crop_rect[4]
           iw == self.current_image.w
           ih == self.current_image.h
           x1 == Max(0, Min(iw - 1, Floor(x * iw, self.display_w)))
           y1 == Max(0, Min(ih - 1, Floor(y * ih, self.display_h)))
           x2 == Min(iw, Ceil((x + w) * iw, self.display_w))
           y2 == Min(ih, Ceil((y + h) * ih, self.display_h))
       IN  [kind |-> "box", box |-> <<x1, y1, x2, y2>>]

\* variant: the far corner is rounded down like the near one
GetCropBox_FloorEnd(self) ==
  IF self.crop_rect = None \/ self.current_image = NoImage
  THEN [kind |-> "none", box |-> ZeroRect]
  ELSE IF self.display_w = 0 \/ self.display_h = 0
  THEN [kind |-> "error", box |-> ZeroRect]
  ELSE LET x == self.crop_rect[1]
           y == self.crop_rect[2]
           w == self.crop_rect[3]
           h == self.crop_rect[4]
           iw == self.current_image.w
           ih == self.current_image.h
           x1 == Max(0, Min(iw - 1, Floor(x * iw, self.display_w)))
           y1 == Max(0, Min(ih - 1, Floor(y * ih, self.display_h)))
           x2 == Max(x1 + 1, Min(iw, Floor((x + w) * iw, self.display_w)))
           y2 == Max(y1 + 1, Min(ih, Floor((y + h) * ih, self.display_h)))
       IN  [kind |-> "box", box |-> <<x1, y1, x2, y2>>]

\* What GetCropBox gives: kind "none" (it returns None), "error" (it raises
\* ZeroDivisionError: a display extent is 0) or "box" (x1, y1, x2, y2)
GetCropBox(self) ==
  IF self.crop_rect = None \/ self.current_image = NoImage
  THEN [kind |-> "none", box |-> ZeroRect]
  ELSE IF self.display_w = 0 \/ self.display_h = 0
  THEN [kind |-> "error", box |-> ZeroRect]
  ELSE LET x == self.crop_rect[1]
           y == self.crop_rect[2]
           w == self.crop_rect[3]
           h == self.crop_rect[4]
           iw == self.current_image.w
           ih == self.current_image.h
           x1 == Max(0, Min(iw - 1, Floor(x * iw, self.display_w)))
           y1 == Max(0, Min(ih - 1, Floor(y * ih, self.display_h)))
           x2 == Max(x1 + 1, Min(iw, Ceil((x + w) * iw, self.display_w)))
           y2 == Max(y1 + 1, Min(ih, Ceil((y + h) * ih, self.display_h)))
       IN  [kind |-> "box", box |-> <<x1, y1, x2, y2>>]

(***************************************************************************)
(* The coordinate fields.  The text of a field is [ok, n]: ok when int()   *)
(* reads the integer n from it, not ok when int() raises ValueError.       *)
(***************************************************************************)
Str(n) == [ok |-> TRUE, n |-> n]
BadText == [ok |-> FALSE, n |-> 0]

SetCoordTexts(ctrl, box) ==
  [ctrl EXCEPT !.xs = Str(box[1]), !.ys = Str(box[2]),
               !.xe = Str(box[3]), !.ye = Str(box[4])]

\* The result of a method that writes both panels: the two records, and
\* whether it raised (the handler that called it stops there)
Gui(pv, ct, raised) == [preview |-> pv, ctrl |-> ct, raised |-> raised]

\* the guard on _is_editing reads an attribute the preview panel never has,
\* so getattr gives its default, False
UpdateControls(self, ctrl) ==
  LET Shown(b) ==
        CASE b.kind = "none" -> Gui(self, ctrl, FALSE)
          [] b.kind = "error" -> Gui(self, ctrl, TRUE)
          [] OTHER -> Gui(self, SetCoordTexts(ctrl, b.box), FALSE)
  IN  Shown(GetCropBox(self))

IdleFields(self) ==
  [self EXCEPT !.mode = "idle", !.drag_handle = "none",
               !.original_rect = None, !.drag_start = ZeroPoint]

InitCropRect(self, ctrl) ==
  LET disp_w == self.display_w
      disp_h == self.display_h
      Seeded(size) ==
        UpdateControls(
          IdleFields(ApplyAspectRatioToSelection(
            [self EXCEPT !.crop_rect =
               _ensure_min_size(self,
                 Rect(Round(disp_w - size[1], 2), Round(disp_h - size[2], 2),
                      size[1], size[2]))])),
          ctrl)
      \* <<rect_w, rect_h>>; the try block raises on a text it cannot parse
      \* and on wr < hr = 0
      Sized(p) ==
        Seeded(IF ~self.fixed_aspect \/ p = None \/ (p[1] < p[2] /\ p[2] = 0)
               THEN <<disp_w \div 4, disp_w \div 4>>
               ELSE IF p[1] < p[2]
               THEN <<Trunc((disp_h \div 4) * p[1], p[2]), disp_h \div 4>>
               ELSE IF p[1] # 0
               THEN <<disp_w \div 4, Trunc((disp_w \div 4) * p[2], p[1])>>
               ELSE <<disp_w \div 4, disp_h \div 4>>)
  IN  Sized(ParseAspect(self.crop_aspect))

SetImage(self, ctrl, img) ==
  LET prev_rect == self.crop_rect
      Seeded(g) ==
        IF g.raised THEN g ELSE Gui(IdleFields(g.preview), g.ctrl, FALSE)
      Shown(s1) ==
        IF prev_rect # None
        THEN Gui(IdleFields([s1 EXCEPT !.crop_rect = ClipRect(s1, prev_rect)]), ctrl, FALSE)
        ELSE Seeded(InitCropRect(s1, ctrl))
  IN  Shown(UpdateDisplayGeometry([self EXCEPT !.current_image = img]))

(***************************************************************************)
(* Paths and images.  A path is [base, ext], base being the sequence of    *)
(* the pieces of the name before the extension, "_bc" a piece of its own.  *)
(***************************************************************************)
Path(base, ext) == [base |-> base, ext |-> ext]

EndsWithBc(base) == Len(base) > 0 /\ base[Len(base)] = "_bc"

add_bc_suffix(path) ==
  LET base == IF EndsWithBc(path.base)
              THEN SubSeq(path.base, 1, Len(path.base) - 1)
              ELSE path.base
  IN  Path(Append(base, "_bc"), path.ext)

SupportedExts == {".jpg", ".jpeg", ".png", ".bmp", ".tiff", ".tif"}

\* img.crop(box): the window moves to the box, whatever the image's size
Crop(img, box) ==
  [img EXCEPT !.ox = img.ox + box[1], !.oy = img.oy + box[2],
              !.w = box[3] - box[1], !.h = box[4] - box[2]]

\* quantize(colors=256): the image has at most 256 colours afterwards
Quantize(img) == [img EXCEPT !.q = 1]

Range(seq) == { seq[i] : i \in 1..Len(seq) }

\* list.index(x): the first position of x, counted from 1
IndexOf(seq, x) == CHOOSE i \in 1..Len(seq) : seq[i] = x /\ \A j \in 1..(i - 1) : seq[j] # x

\* the elements of seq at the positions in keep, in order
RECURSIVE Select(_, _)
Select(seq, keep) ==
  IF seq = <<>> THEN <<>>
  ELSE LET rest == Select(SubSeq(seq, 1, Len(seq) - 1), keep)
       IN  IF Len(seq) \in keep THEN Append(rest, seq[Len(seq)]) ELSE rest

(***************************************************************************)
(* State.                                                                  *)
(***************************************************************************)
VARIABLES
  file_paths,      \* MainFrame.file_paths
  images,          \* MainFrame.images
  history,         \* MainFrame.history: snapshots [paths, images, flags]
  reduced_flags,   \* MainFrame.reduced_flags
  selected_index,  \* MainFrame.selected_index
  preview,         \* the PreviewPanel's fields
  ctrl,            \* the ControlPanel's fields
  left_is_down     \* the mouse: whether the left button is held

vars == <<file_paths, images, history, reduced_flags, selected_index,
          preview, ctrl, left_is_down>>

frameVars == <<file_paths, images, history, reduced_flags, selected_index>>

(***************************************************************************)
(* The state after the constructors have run.                              *)
(***************************************************************************)
DefaultAspect == << <<1>>, <<1>> >>   \* the text "1:1"

InitPreview(client) ==
  [ current_image |-> NoImage,
    client_size |-> client,
    display_w |-> 0, display_h |-> 0,
    offset_x |-> 0, offset_y |-> 0,
    old_display_w |-> 0, old_display_h |-> 0,
    crop_rect |-> None,
    mode |-> "idle",
    drag_handle |-> "none",
    drag_start |-> ZeroPoint,
    original_rect |-> None,
    fixed_aspect |-> TRUE,
    crop_aspect |-> DefaultAspect,
    has_capture |-> FALSE ]

InitCtrl ==
  [ xs |-> BadText, ys |-> BadText, xe |-> BadText, ye |-> BadText,
    cb_aspect |-> TRUE,
    tc_aspect |-> DefaultAspect ]

(***************************************************************************)
(* MainFrame: helpers of the handlers.                                     *)
(***************************************************************************)
Snapshot(paths, imgs, flags) == [paths |-> paths, images |-> imgs, flags |-> flags]

\* a history that never evicts
PushHistory_NoEvict(hist, paths, imgs, flags) ==
  Append(hist, Snapshot(paths, imgs, flags))

\* PushHistory: the history after the current session is appended to hist
PushHistory(hist, paths, imgs, flags) ==
  LET h == Append(hist, Snapshot(paths, imgs, flags))
  IN  IF Len(h) > MAX_HISTORY THEN Tail(h) ELSE h

\* UpdateUI, for the panels: sel is selected_index (counted from 0)
UpdateUI(sel, imgs, pv, ct) ==
  IF 0 <= sel /\ sel < Len(imgs)
  THEN LET Boxed(g, b) ==
             CASE b.kind = "error" -> Gui(g.preview, g.ctrl, TRUE)
               [] b.kind = "box" -> Gui(g.preview, SetCoordTexts(g.ctrl, b.box), FALSE)
               [] OTHER -> g
           Shown(g) == IF g.raised THEN g ELSE Boxed(g, GetCropBox(g.preview))
       IN  Shown(SetImage(pv, ct, imgs[sel + 1]))
  ELSE Gui(pv, ct, FALSE)

\* selected_index after "if not (0 <= selected_index < len(images))"
KeepIndex(sel, imgs) == IF 0 <= sel /\ sel < Len(imgs) THEN sel ELSE 0

\* a validation that accepts any four integers
GetValidatedBox_AnyOrder(ct) ==
  IF ~(ct.xs.ok /\ ct.ys.ok /\ ct.xe.ok /\ ct.ye.ok) THEN None
  ELSE <<ct.xs.n, ct.ys.n, ct.xe.n, ct.ye.n>>

\* GetValidatedBox: <<xs, ys, xe, ye>>, or None after the message box
GetValidatedBox(ct) ==
  IF ~(ct.xs.ok /\ ct.ys.ok /\ ct.xe.ok /\ ct.ye.ok) THEN None
  ELSE IF ct.xe.n <= ct.xs.n \/ ct.ye.n <= ct.ys.n THEN None
  ELSE <<ct.xs.n, ct.ys.n, ct.xe.n, ct.ye.n>>

(***************************************************************************)
(* MainFrame: the handlers.                                                *)
(***************************************************************************)
\* AddFiles(paths): pics[i] is the picture the file paths[i] holds, and the
\* files at the positions in unreadable fail to open
RECURSIVE AddLoop(_, _, _, _, _, _)
AddLoop(paths, pics, unreadable, i, fp, im) ==
  IF i > Len(paths) THEN <<fp, im>>
  ELSE IF /\ paths[i].ext \in SupportedExts
          /\ paths[i] \notin Range(fp)
          /\ i \notin unreadable
       THEN AddLoop(paths, pics, unreadable, i + 1,
                    Append(fp, paths[i]), Append(im, pics[i]))
       ELSE AddLoop(paths, pics, unreadable, i + 1, fp, im)

AddFiles(paths, pics, unreadable) ==
  LET Shown(g) == preview' = g.preview /\ ctrl' = g.ctrl
      Added(fp, im, fl) ==
        /\ file_paths' = fp
        /\ images' = im
        /\ reduced_flags' = fl
        /\ IF im # <<>>
           THEN /\ history' = PushHistory(<<>>, fp, im, fl)
                /\ selected_index' = 0
                /\ Shown(UpdateUI(0, im, preview, ctrl))
           ELSE UNCHANGED <<history, selected_index, preview, ctrl>>
        /\ UNCHANGED left_is_down
      Listed(r) ==
        Added(r[1], r[2],
              reduced_flags \o [i \in 1..(Len(r[1]) - Len(file_paths)) |-> FALSE])
  IN  Listed(AddLoop(paths, pics, unreadable, 1, file_paths, images))

\* an import that keeps the earlier snapshots
ImportImage_KeepHistory(img, file_path) ==
  LET Shown(g) == preview' = g.preview /\ ctrl' = g.ctrl
      Added(fp, im, fl) ==
        /\ file_paths' = fp
        /\ images' = im
        /\ reduced_flags' = fl
        /\ history' = PushHistory(history, fp, im, fl)
        /\ selected_index' = Len(im) - 1
        /\ Shown(UpdateUI(Len(im) - 1, im, preview, ctrl))
        /\ UNCHANGED left_is_down
  IN  Added(Append(file_paths, file_path), Append(images, img),
            Append(reduced_flags, FALSE))

\* a pasted or captured image img, saved as file_path, joins the session
ImportImage(img, file_path) ==
  LET Shown(g) == preview' = g.preview /\ ctrl' = g.ctrl
      Added(fp, im, fl) ==
        /\ file_paths' = fp
        /\ images' = im
        /\ reduced_flags' = fl
        /\ history' = PushHistory(<<>>, fp, im, fl)
        /\ selected_index' = Len(im) - 1
        /\ Shown(UpdateUI(Len(im) - 1, im, preview, ctrl))
        /\ UNCHANGED left_is_down
  IN  Added(Append(file_paths, file_path), Append(images, img),
            Append(reduced_flags, FALSE))

\* img is None when the clipboard holds no image, saved is FALSE when the
\* file cannot be written
OnPasteFromClipboard(img, file_path, saved) ==
  IF img = NoImage \/ ~saved THEN UNCHANGED vars
  ELSE ImportImage(img, file_path)

OnSnapshot(img, file_path, saved) ==
  IF img = NoImage \/ ~saved THEN UNCHANGED vars
  ELSE ImportImage(img, file_path)

OnSelectThumbnail(idx) ==
  LET Shown(g) == preview' = g.preview /\ ctrl' = g.ctrl
  IN  /\ selected_index' = idx
      /\ Shown(UpdateUI(idx, images, preview, ctrl))
      /\ UNCHANGED <<file_paths, images, history, reduced_flags, left_is_down>>

\* the session a batch transform installs when its documents ok succeeded
InstallBatch(new_paths, new_images, new_flags) ==
  LET Shown(g) == preview' = g.preview /\ ctrl' = g.ctrl
      Selected(sel) ==
        /\ selected_index' = sel
        /\ Shown(UpdateUI(sel, new_images, preview, ctrl))
  IN  /\ file_paths' = new_paths
      /\ images' = new_images
      /\ reduced_flags' = new_flags
      /\ history' = PushHistory(history, new_paths, new_images, new_flags)
      /\ Selected(KeepIndex(selected_index, new_images))
      /\ UNCHANGED left_is_down

\* a crop that installs its result even when no document succeeded
OnTrimAll_InstallEmpty(failing) ==
  LET box == GetValidatedBox(ctrl)
      n == Min(Len(file_paths), Len(images))
      ok == (1..n) \ failing
      new_paths == Select([i \in 1..n |-> add_bc_suffix(file_paths[i])], ok)
      new_images == Select([i \in 1..n |-> Crop(images[i], box)], ok)
      new_flags == Select(reduced_flags, ok)
  IN  IF box = None THEN UNCHANGED vars
      ELSE InstallBatch(new_paths, new_images, new_flags)

\* OnTrimAll: the documents at the positions in failing raise while they
\* are cropped, saved or reopened
OnTrimAll(failing) ==
  LET box == GetValidatedBox(ctrl)
      n == Min(Len(file_paths), Len(images))
      ok == (1..n) \ failing
      new_paths == Select([i \in 1..n |-> add_bc_suffix(file_paths[i])], ok)
      new_images == Select([i \in 1..n |-> Crop(images[i], box)], ok)
      new_flags == Select([i \in 1..n |->
                             reduced_flags[IndexOf(file_paths, file_paths[i])]], ok)
  IN  IF box = None \/ ok = {} THEN UNCHANGED vars
      ELSE InstallBatch(new_paths, new_images, new_flags)

OnPngReduce(failing) ==
  LET n == Min(Len(file_paths), Len(images))
      ok == (1..n) \ failing
      new_paths == Select([i \in 1..n |-> add_bc_suffix(file_paths[i])], ok)
      new_images == Select([i \in 1..n |-> Quantize(images[i])], ok)
      new_flags == Select([i \in 1..n |-> TRUE], ok)
  IN  IF \/ file_paths = <<>>
         \/ \E i \in 1..Len(file_paths) : file_paths[i].ext # ".png"
         \/ ok = {}
      THEN UNCHANGED vars
      ELSE InstallBatch(new_paths, new_images, new_flags)

\* a revert that restores the snapshot it discards
OnRevertAll_Popped ==
  IF Len(history) < 2 THEN UNCHANGED vars
  ELSE LET Shown(g) == preview' = g.preview /\ ctrl' = g.ctrl
           Selected(previous, sel) ==
             /\ selected_index' = sel
             /\ Shown(UpdateUI(sel, previous.images, preview, ctrl))
           Restored(previous) ==
             /\ file_paths' = previous.paths
             /\ images' = previous.images
             /\ reduced_flags' = previous.flags
             /\ Selected(previous, KeepIndex(selected_index, previous.images))
       IN  /\ history' = SubSeq(history, 1, Len(history) - 1)
           /\ Restored(history[Len(history)])
           /\ UNCHANGED left_is_down

OnRevertAll ==
  IF Len(history) < 2 THEN UNCHANGED vars
  ELSE LET Shown(g) == preview' = g.preview /\ ctrl' = g.ctrl
           Selected(previous, sel) ==
             /\ selected_index' = sel
             /\ Shown(UpdateUI(sel, previous.images, preview, ctrl))
           Restored(previous) ==
             /\ file_paths' = previous.paths
             /\ images' = previous.images
             /\ reduced_flags' = previous.flags
             /\ Selected(previous, KeepIndex(selected_index, previous.images))
       IN  /\ history' = SubSeq(history, 1, Len(history) - 1)
           /\ Restored(history[Len(history) - 1])
           /\ UNCHANGED left_is_down

OnClearAll ==
  /\ file_paths' = <<>>
  /\ images' = <<>>
  /\ history' = <<>>
  /\ reduced_flags' = <<>>
  /\ selected_index' = -1
  /\ preview' = [preview EXCEPT !.current_image = NoImage, !.crop_rect = None]
  /\ ctrl' = [ctrl EXCEPT !.xs = BadText, !.ys = BadText, !.xe = BadText, !.ye = BadText]
  /\ UNCHANGED left_is_down

(***************************************************************************)
(* PreviewPanel: the handlers.                                             *)
(***************************************************************************)
\* EVT_SIZE: the panel's client area becomes client
OnSize(client) ==
  LET Rescaled(s1) == IF s1.crop_rect # None THEN RescaleCropRect(s1) ELSE s1
  IN  /\ client # preview.client_size
      /\ preview' = Rescaled(UpdateDisplayGeometry(
                       [preview EXCEPT !.client_size = client,
                                       !.old_display_w = preview.display_w,
                                       !.old_display_h = preview.display_h]))
      /\ UNCHANGED <<frameVars, ctrl, left_is_down>>

\* a point inside the rectangle starts a move before the handles are tested
OnLeftDown_InsideFirst(pos) ==
  LET display_point == _event_to_display_point(preview, pos)
      captured == [preview EXCEPT !.has_capture = TRUE]
      Pressed(handle, clamped) ==
        IF preview.current_image = NoImage THEN preview
        ELSE IF /\ preview.crop_rect # None
                /\ _rect_contains_point(preview.crop_rect, display_point)
        THEN [captured EXCEPT !.mode = "moving", !.drag_handle = "inside",
                              !.original_rect = _rect_from_crop(preview),
                              !.drag_start = clamped]
        ELSE IF handle # "none" /\ preview.crop_rect # None
        THEN [captured EXCEPT !.mode = "resizing", !.drag_handle = handle,
                              !.original_rect = _rect_from_crop(preview),
                              !.drag_start = clamped]
        ELSE IF _point_in_display(preview, display_point)
        THEN [captured EXCEPT !.mode = "creating", !.drag_handle = "none",
                              !.drag_start = clamped, !.original_rect = None,
                              !.crop_rect = Rect(clamped[1], clamped[2], 0, 0)]
        ELSE [preview EXCEPT !.mode = "idle", !.drag_handle = "none",
                             !.original_rect = None]
  IN  /\ ~left_is_down
      /\ left_is_down' = TRUE
      /\ preview' = Pressed(_hit_test_handle(preview, display_point),
                            _clamp_display_point(preview, display_point))
      /\ UNCHANGED <<frameVars, ctrl>>

\* EVT_LEFT_DOWN at panel position pos
OnLeftDown(pos) ==
  LET display_point == _event_to_display_point(preview, pos)
      captured == [preview EXCEPT !.has_capture = TRUE]
      Pressed(handle, clamped) ==
        IF preview.current_image = NoImage THEN preview
        ELSE IF handle # "none" /\ preview.crop_rect # None
        THEN [captured EXCEPT !.mode = "resizing", !.drag_handle = handle,
                              !.original_rect = _rect_from_crop(preview),
                              !.drag_start = clamped]
        ELSE IF /\ preview.crop_rect # None
                /\ _rect_contains_point(preview.crop_rect, display_point)
        THEN [captured EXCEPT !.mode = "moving", !.drag_handle = "inside",
                              !.original_rect = _rect_from_crop(preview),
                              !.drag_start = clamped]
        ELSE IF _point_in_display(preview, display_point)
        THEN [captured EXCEPT !.mode = "creating", !.drag_handle = "none",
                              !.drag_start = clamped, !.original_rect = None,
                              !.crop_rect = Rect(clamped[1], clamped[2], 0, 0)]
        ELSE [preview EXCEPT !.mode = "idle", !.drag_handle = "none",
                             !.original_rect = None]
  IN  /\ ~left_is_down
      /\ left_is_down' = TRUE
      /\ preview' = Pressed(_hit_test_handle(preview, display_point),
                            _clamp_display_point(preview, display_point))
      /\ UNCHANGED <<frameVars, ctrl>>

\* EVT_MOTION at panel position pos with the left button held (a drag);
\* without the button only the cursor changes
OnMouseMove(pos) ==
  LET Shown(g) == preview' = g.preview /\ ctrl' = g.ctrl
      Dragged(point) ==
        CASE preview.mode = "creating" ->
               _update_selection_creation(preview, preview.drag_start, point)
          [] preview.mode = "moving" /\ RectTruthy(preview.original_rect) ->
               _update_selection_move(preview, point[1] - preview.drag_start[1],
                                               point[2] - preview.drag_start[2])
          [] preview.mode = "resizing" /\ RectTruthy(preview.original_rect) ->
               _update_selection_resize(preview, point)
          [] OTHER -> preview
  IN  /\ left_is_down
      /\ IF preview.current_image = NoImage \/ preview.mode = "idle"
         THEN UNCHANGED <<preview, ctrl>>
         ELSE Shown(UpdateControls(
                Dragged(_clamp_display_point(preview,
                          _event_to_display_point(preview, pos))),
                ctrl))
      /\ UNCHANGED <<frameVars, left_is_down>>

\* EVT_LEFT_UP
OnLeftUp ==
  LET previous_mode == preview.mode
      Shown(g) == preview' = g.preview /\ ctrl' = g.ctrl
      Finished(s1) ==
        IF previous_mode = "creating" /\ s1.crop_rect # None
        THEN [s1 EXCEPT !.crop_rect = _ensure_min_size(s1, _rect_from_crop(s1))]
        ELSE s1
  IN  /\ left_is_down
      /\ left_is_down' = FALSE
      /\ Shown(UpdateControls(
           Finished(IdleFields([preview EXCEPT !.has_capture = FALSE])), ctrl))
      /\ UNCHANGED frameVars

(***************************************************************************)
(* ControlPanel: the handlers.                                             *)
(***************************************************************************)
\* OnAspectToggle, the body: the panels after the handler has read the check
\* box and the ratio field of ct
AspectToggled(pv, ct) ==
  LET lock == ct.cb_aspect
      s1 == [pv EXCEPT !.fixed_aspect = lock]
      s2 == [s1 EXCEPT !.crop_aspect = ct.tc_aspect]
      Refreshed(g1) == IF g1.raised THEN g1 ELSE UpdateControls(g1.preview, g1.ctrl)
  IN  Refreshed(IF ~lock THEN Gui(s1, ct, FALSE)
                ELSE IF s2.crop_rect # None
                THEN Gui(ApplyAspectRatioToSelection(s2), ct, FALSE)
                ELSE InitCropRect(s2, ct))

\* EVT_CHECKBOX: a click flips the check box, then OnAspectToggle runs
OnAspectToggle ==
  LET Shown(g) == preview' = g.preview /\ ctrl' = g.ctrl
  IN  /\ Shown(AspectToggled(preview, [ctrl EXCEPT !.cb_aspect = ~ctrl.cb_aspect]))
      /\ UNCHANGED <<frameVars, left_is_down>>

\* EVT_TEXT_ENTER of the ratio field: the user has typed text and presses
\* Enter, OnAspectToggle runs
OnAspectEnter(text) ==
  LET Shown(g) == preview' = g.preview /\ ctrl' = g.ctrl
  IN  /\ Shown(AspectToggled(preview, [ctrl EXCEPT !.tc_aspect = text]))
      /\ UNCHANGED <<frameVars, left_is_down>>

\* the user edits the text of the ratio field
TypeAspect(text) ==
  /\ text # ctrl.tc_aspect
  /\ ctrl' = [ctrl EXCEPT !.tc_aspect = text]
  /\ UNCHANGED <<frameVars, preview, left_is_down>>

CoordKeys == {"xs", "ys", "xe", "ye"}

\* the user edits the text of one coordinate field
TypeCoord(key, text) ==
  /\ text # ctrl[key]
  /\ ctrl' = [ctrl EXCEPT ![key] = text]
  /\ UNCHANGED <<frameVars, preview, left_is_down>>

\* a rational <<n, d>>, d # 0
Rat(n, d) == <<n, d>>

\* OnCoordEnter, lines 962-984: the box <<xs, ys, xe, ye>> of rationals that
\* the aspect lock makes of the validated box, and whether the lock is
\* released; raised when the ratio text cannot be read or a division by
\* zero occurs
LockedBox(key, box, old, text) ==
  LET xs == Rat(box[1], 1)
      ys == Rat(box[2], 1)
      Raised == [raised |-> TRUE, box |-> <<xs, ys, xs, ys>>, unlock |-> FALSE]
      \* xe - xs = a/b and ye - ys = c/e;
      \* (xe - xs)/(ye - ys) - wr/hr = num/den
      Compared(xe, ye, wr, hr) ==
        LET a == xe[1] - box[1] * xe[2]
            b == xe[2]
            c == ye[1] - box[2] * ye[2]
            e == ye[2]
            num == a * e * hr - wr * b * c
            den == b * c * hr
        IN  IF c = 0 \/ hr = 0 THEN Raised
            ELSE [raised |-> FALSE, box |-> <<xs, ys, xe, ye>>,
                  unlock |-> 100 * Abs(num) > Abs(den)]
      Parsed(p) ==
        IF p = None \/ (key = "xe" /\ p[1] = 0) \/ (key = "ye" /\ p[2] = 0) THEN Raised
        ELSE Compared(
               CASE key = "xs" -> Rat(old[3] + (box[1] - old[1]), 1)
                 [] key = "ye" -> Rat(box[1] * p[2] + (box[4] - box[2]) * p[1], p[2])
                 [] OTHER -> Rat(box[3], 1),
               CASE key = "ys" -> Rat(old[4] + (box[2] - old[2]), 1)
                 [] key = "xe" -> Rat(box[2] * p[1] + (box[3] - box[1]) * p[2], p[1])
                 [] OTHER -> Rat(box[4], 1),
               p[1], p[2])
  IN  Parsed(ParseAspect(text))

\* OnCoordEnter, lines 986-996: the display rectangle of a source box of
\* rationals
BoxToDisplayRect(self, box) ==
  LET iw == self.current_image.w
      ih == self.current_image.h
      Cornered(dxs, dys, dxe, dye) == Rect(dxs, dys, dxe - dxs, dye - dys)
  IN  Cornered(Round(box[1][1] * self.display_w, box[1][2] * iw),
               Round(box[2][1] * self.display_h, box[2][2] * ih),
               Round(box[3][1] * self.display_w, box[3][2] * iw),
               Round(box[4][1] * self.display_h, box[4][2] * ih))

\* Enter in the coordinate field key
OnCoordEnter(key) ==
  LET Shown(g) == preview' = g.preview /\ ctrl' = g.ctrl
      Unlocked(lk) == IF lk.unlock THEN [ctrl EXCEPT !.cb_aspect = FALSE] ELSE ctrl
      Entered(lk) ==
        IF lk.raised THEN UNCHANGED <<preview, ctrl>>
        ELSE IF preview.current_image = NoImage
        THEN preview' = preview /\ ctrl' = Unlocked(lk)
        ELSE Shown(UpdateControls(
               [preview EXCEPT !.crop_rect =
                  _ensure_min_size(preview, BoxToDisplayRect(preview, lk.box))],
               Unlocked(lk)))
      Validated(box, old_box) ==
        IF box = None \/ old_box.kind = "error" THEN UNCHANGED <<preview, ctrl>>
        ELSE Entered(
               IF ctrl.cb_aspect
               THEN LockedBox(key, box,
                              IF old_box.kind = "box" THEN old_box.box ELSE box,
                              ctrl.tc_aspect)
               ELSE [raised |-> FALSE, unlock |-> FALSE,
                     box |-> <<Rat(box[1], 1), Rat(box[2], 1),
                               Rat(box[3], 1), Rat(box[4], 1)>>])
  IN  /\ Validated(GetValidatedBox(ctrl), GetCropBox(preview))
      /\ UNCHANGED <<frameVars, left_is_down>>

(***************************************************************************)
(* Bounds: the inputs the environment draws from.                          *)
(***************************************************************************)
\* the client area of the preview panel when the frame opens
ClientW == 16
ClientH == 12
\* the most documents a session holds
MaxDocs == 3

StartClient == <<ClientW, ClientH>>

\* client areas the panel is resized to
ClientSizes == { StartClient, <<ClientW \div 2, ClientH \div 2>> }

\* pictures on disk, on the clipboard and on the screen: one shown at half
\* scale, one shown enlarged, one too thin for a rectangle of MIN_CROP_SIZE
Picture(src, w, h) == [src |-> src, ox |-> 0, oy |-> 0, w |-> w, h |-> h, q |-> 0]
PicA == Picture("a", 2 * ClientW, 2 * ClientH)
PicB == Picture("b", 6, 5)
PicThin == Picture("thin", 1, 10)

\* panel positions of the mouse events
PointerPositions ==
  { <<0, 0>>, <<5, 6>>, <<11, 12>>, <<ClientW, ClientH>>, <<ClientW \div 2, 0>> }

\* texts of the ratio field: "1:1", "3:2", "1:2"
AspectTexts == { DefaultAspect, << <<3>>, <<2>> >>, << <<1>>, <<2>> >> }

PathA == Path(<<"a">>, ".png")
PathABc == Path(<<"a", "_bc">>, ".png")
PathB == Path(<<"b">>, ".jpg")
PathClip == Path(<<"clipboard">>, ".png")
PathSnap == Path(<<"snapshot">>, ".png")

(***************************************************************************)
(* Spec: the pointer gestures on one loaded document, with the aspect lock *)
(* switched on and off.                                                    *)
(***************************************************************************)
Init ==
  /\ file_paths = <<>>
  /\ images = <<>>
  /\ history = <<>>
  /\ reduced_flags = <<>>
  /\ selected_index = -1
  /\ preview = InitPreview(StartClient)
  /\ ctrl = InitCtrl
  /\ left_is_down = FALSE

LoadOne ==
  /\ file_paths = <<>>
  /\ \E pic \in {PicA, PicB, PicThin} : AddFiles(<<PathA>>, <<pic>>, {})

PointerDown == \E pos \in PointerPositions : OnLeftDown(pos)
PointerMove == \E pos \in PointerPositions : OnMouseMove(pos)
PointerUp == OnLeftUp
AspectClick == OnAspectToggle

Next ==
  \/ LoadOne
  \/ PointerDown
  \/ PointerMove
  \/ PointerUp
  \/ AspectClick

Spec == Init /\ [][Next]_vars

(***************************************************************************)
(* SpecRatio: the pointer gestures under the aspect lock; between two      *)
(* gestures the ratio is retyped and the panel resized.                    *)
(***************************************************************************)
PanelResize == ~left_is_down /\ \E c \in ClientSizes : OnSize(c)
AspectEnter == ~left_is_down /\ \E t \in AspectTexts : OnAspectEnter(t)

NextRatio ==
  \/ LoadOne
  \/ PointerDown
  \/ PointerMove
  \/ PointerUp
  \/ PanelResize
  \/ AspectEnter

SpecRatio == Init /\ [][NextRatio]_vars

(***************************************************************************)
(* SpecHistory: one document is cropped and reduced over and over, the     *)
(* batches are reverted, the session is cleared.                           *)
(***************************************************************************)
\* the documents of a batch that fail: none, the second, all
FailSets == { {}, {2}, 1..MaxDocs }

TrimAll == \E failing \in FailSets : OnTrimAll(failing)
PngReduce == \E failing \in FailSets : OnPngReduce(failing)
RevertAll == OnRevertAll
ClearAll == OnClearAll

NextHistory ==
  \/ LoadOne
  \/ TrimAll
  \/ PngReduce
  \/ RevertAll
  \/ ClearAll

SpecHistory == Init /\ [][NextHistory]_vars

(***************************************************************************)
(* SpecBatch: files are dropped on the frame, the documents are cropped    *)
(* and reduced, some of them failing.                                      *)
(***************************************************************************)
\* a picture of one pixel: a crop leaves it as it is
Dot(src) == Picture(src, 1, 1)

\* the files dropped together, and the picture each file holds
DocLists == { <<PathA>>, <<PathA, PathB>> }
PicOf(path) == IF path = PathB THEN Dot("b") ELSE Dot("a")

DropFiles ==
  \E paths \in DocLists, unreadable \in {{}, {1}} :
    /\ Len(file_paths) + Len(paths) <= MaxDocs
    /\ AddFiles(paths, [i \in 1..Len(paths) |-> PicOf(paths[i])], unreadable)

NextBatch ==
  \/ DropFiles
  \/ TrimAll
  \/ PngReduce

SpecBatch == Init /\ [][NextBatch]_vars

(***************************************************************************)
(* SpecImport: images are pasted and captured into a session that is       *)
(* cropped and reverted.                                                   *)
(***************************************************************************)
\* the clipboard holds no image or a picture; the file is written or not
Paste ==
  \E img \in {NoImage, Dot("clip")}, saved \in BOOLEAN :
    /\ Len(file_paths) < MaxDocs
    /\ PathClip \notin Range(file_paths)
    /\ OnPasteFromClipboard(img, PathClip, saved)

\* the screen is grabbed; the file is written or not
Capture ==
  \E saved \in BOOLEAN :
    /\ Len(file_paths) < MaxDocs
    /\ PathSnap \notin Range(file_paths)
    /\ OnSnapshot(Dot("snap"), PathSnap, saved)

PickThumbnail == \E idx \in 0..(Len(images) - 1) : OnSelectThumbnail(idx)

NextImport ==
  \/ DropFiles
  \/ Paste
  \/ Capture
  \/ PickThumbnail
  \/ TrimAll
  \/ RevertAll

SpecImport == Init /\ [][NextImport]_vars

(***************************************************************************)
(* SpecEdit: the coordinate fields of one loaded document are edited and   *)
(* committed, the batch crop is applied.                                   *)
(***************************************************************************)
\* texts typed into a coordinate field: "x", "0", "3"
CoordTexts == { BadText, Str(0), Str(3) }

\* the most batch crops applied to the document
MaxCrops == 1

\* the fields whose text is not what UpdateControls wrote last
Edited ==
  LET Differing(b) ==
        IF b.kind # "box" THEN {}
        ELSE { k \in CoordKeys : ctrl[k] # SetCoordTexts(ctrl, b.box)[k] }
  IN  Differing(GetCropBox(preview))

\* one field is edited at a time
EditCoord ==
  \E key \in CoordKeys, text \in CoordTexts :
    /\ Edited \subseteq {key}
    /\ TypeCoord(key, text)
CoordEnter == \E key \in CoordKeys : OnCoordEnter(key)
CropEdited == Len(history) <= MaxCrops /\ TrimAll

LoadSmall ==
  file_paths = <<>> /\ \E pic \in {PicB, PicThin} : AddFiles(<<PathA>>, <<pic>>, {})

NextEdit ==
  \/ LoadSmall
  \/ EditCoord
  \/ CoordEnter
  \/ CropEdited
  \/ AspectClick

SpecEdit == Init /\ [][NextEdit]_vars

(***************************************************************************)
(* Claims on the geometry of the selection rectangle.                      *)
(***************************************************************************)
PointerStep == PointerDown \/ PointerMove \/ PointerUp

\* r is a rectangle of at least MIN_CROP_SIZE in both extents inside a
\* display of dw x dh pixels
RectWithin(r, dw, dh) ==
  /\ r[3] >= MIN_CROP_SIZE /\ r[4] >= MIN_CROP_SIZE
  /\ 0 <= r[1] /\ 0 <= r[2]
  /\ r[1] + r[3] <= dw /\ r[2] + r[4] <= dh

\* the zero-size rectangle OnLeftDown leaves when it starts a create
CreationSeed(self) ==
  /\ self.mode = "creating"
  /\ self.crop_rect = Rect(self.drag_start[1], self.drag_start[2], 0, 0)

BoxWithin(box, iw, ih) ==
  /\ box[3] > box[1] /\ box[4] > box[2]
  /\ 0 <= box[1] /\ 0 <= box[2]
  /\ box[3] <= iw /\ box[4] <= ih

\* C3: whenever GetCropBox returns a box (x1, y1, x2, y2), for a rectangle of
\* any size, a zero-area one included, x2 > x1, y2 > y1, 0 <= x1, 0 <= y1,
\* x2 <= image width and y2 <= image height.
C3_BoxWithinImage ==
  GetCropBox(preview).kind = "box"
    => BoxWithin(GetCropBox(preview).box, preview.current_image.w, preview.current_image.h)

\* C3, the case: the box of a zero-area rectangle on an enlarged image
C3_Witness ==
  /\ preview.crop_rect # None
  /\ preview.crop_rect[3] = 0 /\ preview.crop_rect[4] = 0
  /\ preview.current_image.w < preview.display_w
  /\ GetCropBox(preview).kind = "box"

\* the display rectangle OnCoordEnter makes of the box GetCropBox returns
RoundTrip(self) ==
  LET b == GetCropBox(self).box
  IN  _ensure_min_size(self, BoxToDisplayRect(self,
        <<Rat(b[1], 1), Rat(b[2], 1), Rat(b[3], 1), Rat(b[4], 1)>>))

\* the area two rectangles share
Overlap(a, b) ==
  Max(0, Min(a[1] + a[3], b[1] + b[3]) - Max(a[1], b[1]))
    * Max(0, Min(a[2] + a[4], b[2] + b[4]) - Max(a[2], b[2]))

\* a rectangle R the round trip is claimed for: valid, on a loaded image
RoundTripCase(self) ==
  /\ GetCropBox(self).kind = "box"
  /\ RectWithin(self.crop_rect, self.display_w, self.display_h)

\* C10, as stated: the round trip of a valid rectangle R gives a rectangle
\* whose intersection-over-union with R exceeds 0.95.
C10_Original ==
  RoundTripCase(preview)
    => LET inter == Overlap(preview.crop_rect, RoundTrip(preview))
           union == preview.crop_rect[3] * preview.crop_rect[4]
                      + RoundTrip(preview)[3] * RoundTrip(preview)[4] - inter
       IN  100 * inter > 95 * union

\* C10, amended: the round trip of a valid rectangle R gives a rectangle that
\* contains R, each vertical edge less than display_w / image_w + 1/2 pixels
\* and each horizontal edge less than display_h / image_h + 1/2 pixels
\* outside R's.
C10_RoundTripContains ==
  RoundTripCase(preview)
    => LET r == preview.crop_rect
           t == RoundTrip(preview)
           iw == preview.current_image.w
           ih == preview.current_image.h
           dw == preview.display_w
           dh == preview.display_h
       IN  /\ t[1] <= r[1] /\ r[1] + r[3] <= t[1] + t[3]
           /\ t[2] <= r[2] /\ r[2] + r[4] <= t[2] + t[4]
           /\ 2 * iw * (r[1] - t[1]) < 2 * dw + iw
           /\ 2 * iw * ((t[1] + t[3]) - (r[1] + r[3])) < 2 * dw + iw
           /\ 2 * ih * (r[2] - t[2]) < 2 * dh + ih
           /\ 2 * ih * ((t[2] + t[4]) - (r[2] + r[4])) < 2 * dh + ih

\* C10, the case: a valid rectangle on an enlarged image that the round trip
\* widens
C10_Witness ==
  /\ RoundTripCase(preview)
  /\ preview.current_image.w < preview.display_w
  /\ RoundTrip(preview) # preview.crop_rect

\* the locked ratio <<wr, hr>> when both parts are positive, else None
PositiveLock(self) ==
  LET p == ParseAspect(self.crop_aspect)
  IN  IF self.fixed_aspect /\ p # None /\ p[1] > 0 /\ p[2] > 0 THEN p ELSE None

\* a pointer-move that makes a rectangle, a create or a resize: the button
\* stays held (every other handler that runs with the button held changes
\* the panel's size, the check box or the ratio field)
MakesRect ==
  /\ left_is_down /\ left_is_down'
  /\ preview'.client_size = preview.client_size
  /\ ctrl'.cb_aspect = ctrl.cb_aspect /\ ctrl'.tc_aspect = ctrl.tc_aspect
  /\ preview.current_image # NoImage
  /\ \/ preview.mode = "creating"
     \/ preview.mode = "resizing" /\ RectTruthy(preview.original_rect)

\* C2, as stated: under the aspect lock with ratio r = W/H the rectangle
\* every create, every resize and every rescale on a panel resize makes has
\* |w/h - r| < 0.02.
C2_Original ==
  [][(MakesRect \/ PanelResize) /\ PositiveLock(preview') # None
        /\ preview'.crop_rect # None /\ preview'.crop_rect[4] > 0
       => LET r == PositiveLock(preview')
              w == preview'.crop_rect[3]
              h == preview'.crop_rect[4]
          IN  50 * Abs(w * r[2] - h * r[1]) < h * r[2]]_vars

\* C2, amended: under the aspect lock with a positive ratio r = W/H the
\* rectangle every create and every resize makes has w = round(h * r) or
\* h = round(w / r), unless w or h is MIN_CROP_SIZE or the display's extent.
C2_RatioRounded ==
  [][MakesRect /\ PositiveLock(preview) # None
        /\ MIN_CROP_SIZE < preview'.crop_rect[3]
        /\ preview'.crop_rect[3] < preview'.display_w
        /\ MIN_CROP_SIZE < preview'.crop_rect[4]
        /\ preview'.crop_rect[4] < preview'.display_h
       => LET r == PositiveLock(preview)
              w == preview'.crop_rect[3]
              h == preview'.crop_rect[4]
          IN  \/ w = Round(h * r[1], r[2])
              \/ h = Round(w * r[2], r[1])]_vars

\* C2, the case: a locked resize at 3:2 has made a rectangle clear of the
\* minimum size and of the display's extent
C2_Witness ==
  /\ preview.mode = "resizing"
  /\ PositiveLock(preview) = <<3, 2>>
  /\ preview.crop_rect # preview.original_rect
  /\ MIN_CROP_SIZE < preview.crop_rect[3] /\ preview.crop_rect[3] < preview.display_w
  /\ MIN_CROP_SIZE < preview.crop_rect[4] /\ preview.crop_rect[4] < preview.display_h

(***************************************************************************)
(* Claims on the history.                                                  *)
(***************************************************************************)
\* the session as PushHistory records it
Session == Snapshot(file_paths, images, reduced_flags)

SessionUnchanged == UNCHANGED <<file_paths, images, reduced_flags, history>>

\* C4: the history never holds more than MAX_HISTORY snapshots, and a batch
\* transform on a history of MAX_HISTORY snapshots either changes nothing or
\* leaves MAX_HISTORY snapshots: the oldest is gone, the others keep their
\* order, and the new session is the newest.
C4_HistoryBounded ==
  [][/\ Len(history) <= MAX_HISTORY /\ Len(history') <= MAX_HISTORY
     /\ (TrimAll \/ PngReduce) /\ Len(history) = MAX_HISTORY
          => \/ SessionUnchanged
             \/ /\ Len(history') = MAX_HISTORY
                /\ \A i \in 1..(MAX_HISTORY - 1) : history'[i] = history[i + 1]
                /\ history'[MAX_HISTORY] = Session']_vars

\* C4, the case: the snapshot of the import has been evicted from a full
\* history
C4_Witness ==
  /\ Len(history) = MAX_HISTORY
  /\ history[1].paths = <<PathABc>>
  /\ history[1] # history[MAX_HISTORY]

\* the snapshot an import of one file pushes
ImportSnapshot(snap) ==
  /\ snap.paths = <<PathA>>
  /\ snap.images \in { <<PicA>>, <<PicB>>, <<PicThin>> }
  /\ snap.flags = <<FALSE>>

\* C5, as stated: for every k, k reverts after one import and k batch
\* transforms restore the imported session; so whenever the history is down
\* to the one snapshot that reverts cannot remove, the session is the
\* imported one.
C5_Original ==
  Len(history) = 1 => ImportSnapshot(Session)

\* C5, amended to k < MAX_HISTORY, step by step: a batch transform on a
\* history of fewer than MAX_HISTORY snapshots changes nothing or puts the
\* new session on top of all the earlier snapshots; an import leaves the
\* imported session as the only snapshot; a revert on two or more snapshots
\* removes the newest and makes the session equal to the one below it; a
\* revert on fewer than two changes neither the session nor the history.
C5_RevertRestores ==
  [][/\ (TrimAll \/ PngReduce) /\ Len(history) < MAX_HISTORY
          => SessionUnchanged \/ history' = Append(history, Session')
     /\ LoadOne => history' = <<Session'>>
     /\ RevertAll /\ Len(history) >= 2
          => /\ history' = SubSeq(history, 1, Len(history) - 1)
             /\ Session' = history[Len(history) - 1]
     /\ RevertAll /\ Len(history) < 2 => SessionUnchanged]_vars

\* C5, the case: two reverts after two crops have brought the session back
\* to the import, which is the one snapshot left; the rectangle is where the
\* second crop left it, not where the import put it
C5_Witness ==
  /\ Len(history) = 1
  /\ history[1] = Session
  /\ Session = Snapshot(<<PathA>>, <<PicA>>, <<FALSE>>)
  /\ preview.current_image = PicA
  /\ preview.crop_rect = <<5, 4, 4, 4>>

(***************************************************************************)
(* Claims on the batch transforms.                                         *)
(***************************************************************************)
\* the documents of a batch over the session that do not fail
Succeeding(failing) == (1..Len(file_paths)) \ failing

\* some documents of the batch fail, and some do not
PartialFailure(failing) ==
  /\ Succeeding(failing) # {}
  /\ Succeeding(failing) # 1..Len(file_paths)

C7_AllFailUnchanged ==
  [][\A failing \in FailSets :
       /\ file_paths # <<>>
       /\ Succeeding(failing) = {}
       /\ OnTrimAll(failing) \/ OnPngReduce(failing)
       => UNCHANGED frameVars]_vars

\* C7, the case: a session of several PNG documents with a valid box and an
\* earlier transform to lose, on which both transforms can run and fail
C7_Witness ==
  /\ Len(file_paths) >= 2
  /\ \A i \in 1..Len(file_paths) : file_paths[i].ext = ".png"
  /\ GetValidatedBox(ctrl) # None
  /\ Len(history) >= 2
  /\ \E failing \in FailSets : Succeeding(failing) = {}

(***************************************************************************)
(* Claims on the imports.                                                  *)
(***************************************************************************)
\* C9: a paste or a capture that adds a document leaves exactly one
\* snapshot in the history, the session with the new document last; and a
\* revert on a history of one snapshot changes nothing, so that reverts
\* never lead to a session older than the import.
C9_ImportIsBase ==
  [][/\ (Paste \/ Capture) /\ file_paths' # file_paths
          => /\ history' = <<Session'>>
             /\ Len(file_paths') = Len(file_paths) + 1
             /\ SubSeq(file_paths', 1, Len(file_paths)) = file_paths
             /\ file_paths'[Len(file_paths')] \in {PathClip, PathSnap}
     /\ RevertAll /\ Len(history) = 1 => UNCHANGED frameVars]_vars

\* C9, the case: a paste after a crop; the crop's snapshots are gone
C9_Witness ==
  /\ Len(history) = 1
  /\ history[1] = Session
  /\ Len(file_paths) >= 2
  /\ file_paths[1] = PathABc
  /\ file_paths[Len(file_paths)] = PathClip

(***************************************************************************)
(* Claims on the coordinate fields.                                        *)
(***************************************************************************)
\* a field that is no integer, or xe <= xs, or ye <= ys
InvalidFields(ct) ==
  \/ ~(ct.xs.ok /\ ct.ys.ok /\ ct.xe.ok /\ ct.ye.ok)
  \/ ct.xe.n <= ct.xs.n
  \/ ct.ye.n <= ct.ys.n

\* C8: with invalid fields, Enter in a coordinate field and a batch crop
\* change neither the rectangle, nor the aspect lock, nor the documents,
\* nor the history.
C8_InvalidRejected ==
  [][InvalidFields(ctrl) /\ (CoordEnter \/ TrimAll)
       => /\ preview'.crop_rect = preview.crop_rect
          /\ preview'.fixed_aspect = preview.fixed_aspect
          /\ ctrl'.cb_aspect = ctrl.cb_aspect
          /\ UNCHANGED <<file_paths, images, reduced_flags, history>>]_vars

\* C8, the case: a document under the aspect lock whose fields are four
\* integers with xe <= xs
C8_Witness ==
  /\ file_paths # <<>>
  /\ preview.crop_rect # None
  /\ ctrl.cb_aspect
  /\ ctrl.xs.ok /\ ctrl.ys.ok /\ ctrl.xe.ok /\ ctrl.ye.ok
  /\ ctrl.xe.n <= ctrl.xs.n
  /\ ctrl.ye.n > ctrl.ys.n

(***************************************************************************)
(* Claims on the mapping to the source image and on the aspect lock.       *)
(***************************************************************************)
\* C11, as stated: whenever an image is loaded and a rectangle exists,
\* GetCropBox returns a box and does not raise, also when the displayed
\* image is 0 pixels wide or high.
C11_Original ==
  preview.current_image # NoImage /\ preview.crop_rect # None
    => GetCropBox(preview).kind = "box"

\* the rectangle r2 of a display of dw x dh pixels has its centre within one
\* pixel per axis of the centre of r1
CentreKept(r1, r2) ==
  /\ Abs((2 * r2[1] + r2[3]) - (2 * r1[1] + r1[3])) <= 2
  /\ Abs((2 * r2[2] + r2[4]) - (2 * r1[2] + r1[4])) <= 2

\* a rectangle of the size of r2 around the centre of r1 lies within the
\* display of dw x dh pixels
FitsAround(r1, r2, dw, dh) ==
  /\ 2 * r1[1] + r1[3] - r2[3] >= 0 /\ 2 * r1[1] + r1[3] + r2[3] <= 2 * dw
  /\ 2 * r1[2] + r1[4] - r2[4] >= 0 /\ 2 * r1[2] + r1[4] + r2[4] <= 2 * dh

\* Enter in the ratio field applies a valid ratio to the rectangle of a
\* loaded image
AppliesRatio ==
  /\ AspectEnter
  /\ preview.current_image # NoImage
  /\ preview.crop_rect # None
  /\ PositiveLock(preview') # None

\* C12, as stated: applying a ratio to an existing rectangle keeps its centre
\* within one pixel per axis, for every rectangle and valid ratio.
C12_Original ==
  [][AppliesRatio => CentreKept(preview.crop_rect, preview'.crop_rect)]_vars

\* C12, amended: the centre is kept within one pixel per axis whenever a
\* rectangle of the new size around the old centre lies within the display.
C12_CentreKept ==
  [][AppliesRatio /\ FitsAround(preview.crop_rect, preview'.crop_rect,
                                 preview.display_w, preview.display_h)
       => CentreKept(preview.crop_rect, preview'.crop_rect)]_vars

\* C12, the case: the ratio 1:2 applied to the square rectangle an import
\* seeds in the middle of the display has made it twice as high as wide
\* around the same centre
C12_Witness ==
  /\ preview.current_image # NoImage
  /\ preview.mode = "idle" /\ ~left_is_down
  /\ PositiveLock(preview) = <<1, 2>>
  /\ preview.crop_rect # None
  /\ preview.crop_rect[4] = 2 * preview.crop_rect[3]
  /\ preview.crop_rect[2] > 0
  /\ 2 * preview.crop_rect[1] + preview.crop_rect[3] = preview.display_w
  /\ 2 * preview.crop_rect[2] + preview.crop_rect[4] = preview.display_h

(***************************************************************************)
(* Claims on the pointer gestures.                                         *)
(***************************************************************************)
\* the handles whose square contains the display point
HandlesAt(point) ==
  IF preview.crop_rect = None THEN {}
  ELSE { HandleNames[i] : i \in { j \in 1..Len(HandleNames) :
           RectContains(_iter_handle_rects_display(preview, HandleNames[j]), point) } }

\* what a press at the display point has to start
Decided(point) ==
  IF HandlesAt(point) # {}
  THEN /\ preview'.mode = "resizing"
       /\ preview'.drag_handle \in HandlesAt(point)
       /\ preview'.crop_rect = preview.crop_rect
  ELSE IF /\ preview.crop_rect # None
          /\ _rect_contains_point(preview.crop_rect, point)
  THEN /\ preview'.mode = "moving"
       /\ preview'.crop_rect = preview.crop_rect
  ELSE IF _point_in_display(preview, point)
  THEN /\ preview'.mode = "creating"
       /\ preview'.crop_rect =
            Rect(_clamp_display_point(preview, point)[1],
                 _clamp_display_point(preview, point)[2], 0, 0)
  ELSE /\ preview'.mode = "idle"
       /\ preview'.crop_rect = preview.crop_rect

\* C13: with an image loaded a press starts a resize when it is on a handle,
\* else a move when it is inside the rectangle, else a creation from a
\* zero-size rectangle at the clamped point when it is inside the display,
\* else nothing: the mode is idle and the rectangle is the one before.
C13_DownPriority ==
  [][\A pos \in PointerPositions :
       OnLeftDown(pos) /\ preview.current_image # NoImage
         => Decided(_event_to_display_point(preview, pos))]_vars

\* C13, the case: a press on a handle at a point inside the rectangle has
\* started a resize
C13_Witness ==
  /\ left_is_down
  /\ preview.mode = "resizing"
  /\ preview.crop_rect = preview.original_rect
  /\ _rect_contains_point(preview.crop_rect, preview.drag_start)

(***************************************************************************)
(* SpecCapture: a gesture on one small document is cut short: an image is  *)
(* pasted with Ctrl+V while the button is held, or the panel loses the     *)
(* mouse capture and the button is released over another window.           *)
(***************************************************************************)
LoadPlain == file_paths = <<>> /\ AddFiles(<<PathA>>, <<PicB>>, {})

\* the system takes the capture away; the panel binds no handler for
\* EVT_MOUSE_CAPTURE_LOST, so none of its fields changes
CaptureLost ==
  /\ preview.has_capture
  /\ preview' = [preview EXCEPT !.has_capture = FALSE]
  /\ UNCHANGED <<frameVars, ctrl, left_is_down>>

\* without the capture a release outside the panel is no EVT_LEFT_UP of
\* the panel
ReleasedElsewhere ==
  /\ left_is_down
  /\ ~preview.has_capture
  /\ left_is_down' = FALSE
  /\ UNCHANGED <<frameVars, preview, ctrl>>

NextCapture ==
  \/ LoadPlain
  \/ PointerDown
  \/ PointerMove
  \/ PointerUp
  \/ Paste
  \/ CaptureLost
  \/ ReleasedElsewhere

SpecCapture == Init /\ [][NextCapture]_vars

\* in idle mode the fields of the gesture are cleared, in a move or a
\* resize the rectangle of the press is kept
GestureFields ==
  /\ preview.mode = "idle" =>
       /\ preview.original_rect = None
       /\ preview.drag_handle = "none"
       /\ preview.drag_start = ZeroPoint
  /\ preview.mode \in {"moving", "resizing"} => preview.original_rect # None

\* C14, as stated: in every state the gesture fields are cleared when the
\* mode is idle and original_rect is set when the mode is moving or
\* resizing, and a release of the button leads to idle from every mode.
C14_Original ==
  /\ []GestureFields
  /\ [][PointerUp => preview'.mode = "idle"]_vars

\* C15, as stated: in every state the panel holds the mouse capture exactly
\* when the mode is creating, moving or resizing.
C15_Original ==
  preview.has_capture <=> preview.mode \in {"creating", "moving", "resizing"}

(***************************************************************************)
(* Claims on the writers of the coordinate fields.                         *)
(***************************************************************************)
\* the texts of the four coordinate fields
CoordFields == <<ctrl.xs, ctrl.ys, ctrl.xe, ctrl.ye>>

\* C16, as stated: OnCoordEnter holds the editing flag from its start to its
\* end, so no text of the fields xs, ys, xe, ye is written by UpdateControls
\* during it: the fields after Enter are the fields before.
C16_Original == [][CoordEnter => CoordFields' = CoordFields]_vars

(***************************************************************************)
(* SpecResize: the panel is resized at any time, also while the button is  *)
(* held during a gesture on a large document.                              *)
(***************************************************************************)
LoadLarge == file_paths = <<>> /\ AddFiles(<<PathA>>, <<PicA>>, {})

SizeEvent == \E c \in ClientSizes : OnSize(c)

NextResize ==
  \/ LoadLarge
  \/ PointerDown
  \/ PointerMove
  \/ PointerUp
  \/ SizeEvent

SpecResize == Init /\ [][NextResize]_vars

\* a pointer-move of a moving gesture on a loaded image
MoveStep ==
  /\ PointerMove
  /\ preview.current_image # NoImage
  /\ preview.mode = "moving"
  /\ preview.original_rect # None

\* C17, as stated: after every pointer-move of a moving gesture the
\* rectangle has the width and the height it had at pointer-down (the size
\* of original_rect), also when the panel was resized since the press.
C17_Original ==
  [][MoveStep => /\ preview'.crop_rect[3] = preview.original_rect[3]
                 /\ preview'.crop_rect[4] = preview.original_rect[4]]_vars

(***************************************************************************)
(* Claims on the resize and the creation of the rectangle.                 *)
(***************************************************************************)
\* the coordinate of one edge of a rectangle: left x, top y, right x + w,
\* bottom y + h
Edge(r, side) ==
  CASE side = "left" -> r[1]
    [] side = "top" -> r[2]
    [] side = "right" -> r[1] + r[3]
    [] OTHER -> r[2] + r[4]

Sides == {"left", "top", "right", "bottom"}

\* a pointer-move of a resizing gesture without a ratio in force
FreeResizeStep ==
  /\ PointerMove
  /\ preview.current_image # NoImage
  /\ preview.mode = "resizing"
  /\ RectTruthy(preview.original_rect)
  /\ ~RatioTruthy(_get_aspect_ratio(preview))

\* C18, as stated: in a resize without the lock every edge the handle does
\* not name stays where it was at pointer-down, and the rectangle never gets
\* narrower or lower than MIN_CROP_SIZE.
C18_Original ==
  [][FreeResizeStep =>
       /\ \A side \in Sides :
            ~HandleHas(preview.drag_handle, side) =>
              Edge(preview'.crop_rect, side) = Edge(preview.original_rect, side)
       /\ preview'.crop_rect[3] >= MIN_CROP_SIZE
       /\ preview'.crop_rect[4] >= MIN_CROP_SIZE]_vars

Corners == {"top_left", "top_right", "bottom_left", "bottom_right"}

\* the rectangle lies inside the display of self without touching its
\* border, so no clamp to the display has moved it
StrictlyInside(self, r) ==
  /\ r[1] > 0 /\ r[1] + r[3] < self.display_w
  /\ r[2] > 0 /\ r[2] + r[4] < self.display_h

\* a pointer-move of a resizing gesture from a corner handle with a ratio
\* in force, the rectangle of the press lying inside the display
LockedCornerStep ==
  /\ PointerMove
  /\ preview.current_image # NoImage
  /\ preview.mode = "resizing"
  /\ preview.drag_handle \in Corners
  /\ RectTruthy(preview.original_rect)
  /\ RectWithin(preview.original_rect, preview.display_w, preview.display_h)
  /\ RatioTruthy(_get_aspect_ratio(preview))

\* C19, as stated: in a locked resize from a corner handle the two edges of
\* the opposite corner stay where they were at pointer-down whenever the
\* result is not clamped to the display.
C19_Original ==
  [][LockedCornerStep /\ StrictlyInside(preview, preview'.crop_rect) =>
       \A side \in Sides :
         ~HandleHas(preview.drag_handle, side) =>
           Edge(preview'.crop_rect, side) = Edge(preview.original_rect, side)]_vars

\* the rectangle r has the anchor as a corner and lies on the side of it
\* that the current point is on, a zero difference counting as positive
Grows(anchor, current, r) ==
  /\ IF current[1] >= anchor[1] THEN r[1] = anchor[1] ELSE r[1] + r[3] = anchor[1]
  /\ IF current[2] >= anchor[2] THEN r[2] = anchor[2] ELSE r[2] + r[4] = anchor[2]

\* the anchor and the current point _create_rect works on
CreateAnchor == _clamp_display_point(preview, preview.drag_start)
CreateCurrent(pos) ==
  _clamp_display_point(preview,
    _clamp_display_point(preview, _event_to_display_point(preview, pos)))

\* a pointer-move at pos of a creating gesture with a ratio in force
LockedCreate(pos) ==
  /\ OnMouseMove(pos)
  /\ preview.current_image # NoImage
  /\ preview.mode = "creating"
  /\ RatioTruthy(_get_aspect_ratio(preview))

\* the rectangle spanned from the anchor to the current point at pos has at
\* least MIN_CROP_SIZE in both extents and lies within the display
SpanFits(pos) ==
  /\ CreateCurrent(pos) # CreateAnchor
  /\ RectWithin(_create_rect_with_ratio_rect(CreateAnchor, CreateCurrent(pos),
                                             _get_aspect_ratio(preview)),
                preview.display_w, preview.display_h)

\* C20, as stated: in a locked create the anchor is a corner of the
\* rectangle, which extends from it towards the current point, for every
\* anchor and current point inside the display.
C20_Original ==
  [][\A pos \in PointerPositions :
       LockedCreate(pos) =>
         Grows(CreateAnchor, CreateCurrent(pos), preview'.crop_rect)]_vars

\* C20, amended: the anchor is a corner of the rectangle, which extends from
\* it towards the current point, whenever the rectangle spanned from the
\* anchor needs no enlargement to MIN_CROP_SIZE and no clamping to the
\* display.
C20_GrowsAway ==
  [][\A pos \in PointerPositions :
       LockedCreate(pos) /\ SpanFits(pos) =>
         Grows(CreateAnchor, CreateCurrent(pos), preview'.crop_rect)]_vars

\* C20, the case: a locked create has spanned a rectangle to the left of
\* and above its anchor, which is the bottom-right corner
C20_Witness ==
  /\ left_is_down
  /\ preview.mode = "creating"
  /\ RatioTruthy(_get_aspect_ratio(preview))
  /\ preview.crop_rect[3] >= MIN_CROP_SIZE
  /\ preview.crop_rect[1] + preview.crop_rect[3] = preview.drag_start[1]
  /\ preview.crop_rect[2] + preview.crop_rect[4] = preview.drag_start[2]

(***************************************************************************)
(* Claims on the display geometry, the ratio text and the lock.            *)
(***************************************************************************)
\* C21, as stated: while an image is loaded a rectangle exists only over a
\* display of positive width and height, and outside a gesture no rectangle
\* of size 0 is left.
C21_Original ==
  preview.current_image # NoImage /\ preview.crop_rect # None =>
    /\ preview.display_w > 0 /\ preview.display_h > 0
    /\ preview.mode = "idle" => preview.crop_rect[3] > 0 /\ preview.crop_rect[4] > 0

(***************************************************************************)
(* SpecLock: ratio texts that cannot be read, or that give no positive     *)
(* ratio, are committed in the ratio field of one small document; the      *)
(* rectangle is then dragged and the coordinate fields are committed.      *)
(***************************************************************************)
\* texts of the ratio field: "x:1", "1", "1:0", "-1:1"
LockTexts ==
  { << <<>>, <<1>> >>, << <<1>> >>, << <<1>>, <<0>> >>, << <<-1>>, <<1>> >> }

\* panel positions of the mouse events of a drag
LockPositions == { <<0, 0>>, <<5, 6>>, <<11, 12>> }

DragDown == \E pos \in LockPositions : OnLeftDown(pos)
DragMove == \E pos \in LockPositions : OnMouseMove(pos)

RatioEnter == ~left_is_down /\ \E t \in LockTexts : OnAspectEnter(t)
LockClick == ~left_is_down /\ OnAspectToggle
FieldEnter == ~left_is_down /\ CoordEnter

NextLock ==
  \/ LoadPlain
  \/ RatioEnter
  \/ LockClick
  \/ FieldEnter
  \/ DragDown
  \/ DragMove
  \/ PointerUp

SpecLock == Init /\ [][NextLock]_vars

\* the text has not two numeric parts W, H with W > 0 and H > 0
Malformed(text) ==
  \/ ParseAspect(text) = None
  \/ ParseAspect(text)[1] <= 0
  \/ ParseAspect(text)[2] <= 0

\* Enter in a coordinate field whose four texts make a box, with the lock
\* checked, an image loaded and a malformed ratio text
MalformedEdit ==
  /\ FieldEnter
  /\ ctrl.cb_aspect
  /\ Malformed(ctrl.tc_aspect)
  /\ preview.current_image # NoImage
  /\ GetCropBox(preview).kind = "box"
  /\ GetValidatedBox(ctrl) # None

\* the rectangle an edit without lock makes of the fields
UnlockedEdit ==
  _ensure_min_size(preview,
    BoxToDisplayRect(preview,
      << Rat(GetValidatedBox(ctrl)[1], 1), Rat(GetValidatedBox(ctrl)[2], 1),
         Rat(GetValidatedBox(ctrl)[3], 1), Rat(GetValidatedBox(ctrl)[4], 1) >>))

\* C22, as stated: under a malformed ratio text the preview panel has no
\* ratio in force, and a coordinate edit completes as the edit without lock.
C22_Original ==
  /\ [](Malformed(preview.crop_aspect) => ~RatioTruthy(_get_aspect_ratio(preview)))
  /\ [][MalformedEdit => preview'.crop_rect = UnlockedEdit]_vars


(* Claims on the lock state after a coordinate edit. *)

\* a coordinate Enter under the lock that leaves the checkbox unticked: the
\* box it computed is off the locked ratio by more than the tolerance
UnlockingEdit == CoordEnter /\ ctrl.cb_aspect /\ ~ctrl'.cb_aspect

\* C23, as stated: the checkbox and the preview's fixed_aspect agree in every
\* state, and a coordinate edit that unticks the checkbox leaves fixed_aspect
\* off as well.
C23_Original ==
  /\ [](ctrl.cb_aspect = preview.fixed_aspect)
  /\ [][UnlockingEdit => ~preview'.fixed_aspect]_vars

(* Claims on the rectangle of a session without image. *)

\* the first image of a session is shown
FirstLoad == preview.current_image = NoImage /\ preview'.current_image # NoImage

\* C24, as stated: while no image is loaded there is no rectangle, and the
\* first image loaded gets the rectangle InitCropRect seeds for it.
C24_Original ==
  /\ [](preview.current_image = NoImage => preview.crop_rect = None)
  /\ [][FirstLoad =>
          preview'.crop_rect = InitCropRect(preview', ctrl').preview.crop_rect]_vars

(* Claims on the files of a batch. *)

\* C25, as stated: the paths of the loaded documents are pairwise distinct.
C25_Original ==
  \A i, j \in 1..Len(file_paths) : file_paths[i] = file_paths[j] => i = j

(* Claims on the files the batch operations touch.  The disk is not a     *)
(* variable: each operation's effect on it is the set of the paths it     *)
(* saves to or removes, computed from the state the operation starts in.  *)

\* OnTrimAll and OnPngReduce: the paths trimmed.save and quantized.save may
\* write, one for each loaded document
SavedByBatch(paths) == { add_bc_suffix(paths[i]) : i \in 1..Len(paths) }

\* OnRevertAll: the paths os.remove is called on
RemovedByRevert(current_paths, prev_paths) ==
  { p \in Range(current_paths) : p \notin Range(prev_paths) /\ EndsWithBc(p.base) }

\* variant: every file of the restored snapshot is saved again
SavedByRevert_AnyName(prev_paths) == Range(prev_paths)

\* OnRevertAll: the paths img.save is called on
SavedByRevert(prev_paths) == { p \in Range(prev_paths) : EndsWithBc(p.base) }

\* the paths a batch crop, a PNG reduce or a revert started now may write
\* or remove
Touched ==
  SavedByBatch(file_paths)
    \cup (IF Len(history) < 2 THEN {}
          ELSE RemovedByRevert(file_paths, history[Len(history) - 1].paths)
                 \cup SavedByRevert(history[Len(history) - 1].paths))

\* C26: in every reachable state, the files a batch crop, a PNG reduce or a
\* revert would write or remove all have a base name that ends in "_bc"; a
\* file without that suffix is never written or deleted by them.
C26_SourcesUntouched == \A p \in Touched : EndsWithBc(p.base)

\* C26, the case: a crop or reduce of a file without the suffix has acted and
\* can be reverted; the revert removes the output and would find the source
\* in the snapshot it restores.
C26_Witness ==
  /\ Len(history) >= 2
  /\ RemovedByRevert(file_paths, history[Len(history) - 1].paths) # {}
  /\ \E p \in Range(history[Len(history) - 1].paths) : ~EndsWithBc(p.base)

(* Claims on a drop that adds no document. *)

\* files are dropped and none of them is accepted: the document list is the
\* one before the drop
NothingAccepted == DropFiles /\ file_paths' = file_paths

\* C27, as stated: a drop that accepts none of its files leaves the document
\* list, the history and the selected index as they were.
C27_Original ==
  [][NothingAccepted =>
       UNCHANGED <<file_paths, images, reduced_flags, history, selected_index>>]_vars

(***************************************************************************)
(* SpecSession: documents are dropped, pasted and captured, cropped,       *)
(* reduced, reverted and cleared, in any order.                            *)
(***************************************************************************)
\* the most documents a session holds here
SessionDocs == 2

DropOne ==
  /\ Len(file_paths) < SessionDocs
  /\ \E unreadable \in {{}, {1}} : AddFiles(<<PathA>>, <<Dot("a")>>, unreadable)
PasteOne == Len(file_paths) < SessionDocs /\ Paste
CaptureOne == Len(file_paths) < SessionDocs /\ Capture

NextSession ==
  \/ DropOne
  \/ PasteOne
  \/ CaptureOne
  \/ TrimAll
  \/ PngReduce
  \/ RevertAll
  \/ ClearAll

SpecSession == Init /\ [][NextSession]_vars

(* Claims on the newest snapshot. *)

\* C28: the history is empty exactly when no document is loaded, and the
\* paths and flags of its last snapshot are the session's file_paths and
\* reduced_flags.
C28_NewestMirrors ==
  /\ history = <<>> <=> file_paths = <<>>
  /\ history # <<>> =>
       /\ history[Len(history)].paths = file_paths
       /\ history[Len(history)].flags = reduced_flags

\* C28, the case: the history holds several snapshots, the newest of them
\* of documents that were reduced and differ from those of the one before.
C28_Witness ==
  /\ Len(history) >= 2
  /\ history[Len(history) - 1].paths # file_paths
  /\ \E i \in 1..Len(reduced_flags) : reduced_flags[i]

=============================================================================
